---- MODULE Spec2Model ----
(***************************************************************************)
(* Model of the RegDoc classifier: the heuristic extractors               *)
(* (backend/safety.py, backend/pii_detection.py), the classification      *)
(* orchestrator (backend/classification.py), the Gateway call             *)
(* (backend/llm_client.py), the audit store (backend/storage.py) and the  *)
(* upload / review page that drives them (app.py).                        *)
(*                                                                         *)
(* Representation.                                                         *)
(*  - A text is the set of vocabulary phrases that occur in it; the        *)
(*    vocabulary is chosen so that no phrase is a substring of another,    *)
(*    hence Python's  kw in text  is membership of kw in that set.         *)
(*    str.lower() is the operator Lower, phrase by phrase.                 *)
(*  - A category string is the sequence of its pieces: "Public" is         *)
(*    <<"Public">>, "Public and Unsafe" is <<"Public", " and ", "Unsafe">>,*)
(*    "" is <<>>.  Python's  "Unsafe" in category  is Has(category, ..).   *)
(*  - A confidence is an integer number of hundredths: 0.6 is 60.          *)
(*  - Reasoning is the sequence of its text blocks, a citation reason the  *)
(*    sequence of its pieces.                                              *)
(***************************************************************************)
EXTENDS Integers, Sequences, FiniteSets, TLC

VARIABLES
    upload,                  \* the uploaded file the page is working on
    doc_info,                \* process_file's result for it
    pc,                      \* position of the page / classify_document
    pii,                     \* classify_document locals, by their names
    unsafe_flag_heuristic,
    prof_pages,
    has_ssn,
    has_sensitive_equipment,
    system_prompt,
    user_payload,
    calls,                   \* the requests sent to the Gateway, in order
    primary,
    validator,
    category,
    unsafe_flag_llm,
    kid_safe,
    confidence,
    reasoning,
    citations,
    unsafe_flag,
    result,                  \* what classify_document returned
    file,                    \* content of history.json
    savers,                  \* the save_result calls in progress, by session
    clock                    \* the wall clock datetime.utcnow() reads

classifyVars == <<upload, doc_info, pc, pii, unsafe_flag_heuristic, prof_pages, has_ssn, has_sensitive_equipment, system_prompt, user_payload, calls, primary, validator, category, unsafe_flag_llm, kid_safe, confidence, reasoning, citations, unsafe_flag, result>>

storeVars == <<file, savers, clock>>

vars == <<classifyVars, storeVars>>

\* ------------------------------------------------------------------------
\* Small helpers for Python built-ins
\* ------------------------------------------------------------------------

\* Python's  piece in string  on a string kept as the sequence of its pieces.
Has(s, piece) ==
    \E i \in DOMAIN s : s[i] = piece

\* Python's max(a, b) and min(a, b) on numbers.
Max(a, b) ==
    IF a >= b THEN a ELSE b

Min(a, b) ==
    IF a <= b THEN a ELSE b

\* ------------------------------------------------------------------------
\* Texts
\* ------------------------------------------------------------------------

\* str.lower(), phrase by phrase.
Lower(phrase) ==
    CASE phrase = "Shit" -> "shit"
      [] phrase = "Cunt" -> "cunt"
      [] phrase = "Internal Use" -> "internal use"
      [] phrase = "F-22" -> "f-22"
      [] phrase = "Brochure" -> "brochure"
      [] OTHER -> phrase

LowerText(text) ==
    { Lower(phrase) : phrase \in text }

\* " ".join(p.get("text") or "" for p in pages): the phrases of all pages.
RECURSIVE JoinTexts(_)
JoinTexts(pages) ==
    IF pages = <<>> THEN {} ELSE Head(pages).text \cup JoinTexts(Tail(pages))

\* ------------------------------------------------------------------------
\* backend/safety.py
\* ------------------------------------------------------------------------

UNSAFE_KEYWORDS ==
    { "child porn", "child pornography", "csam", "kill myself", "kill him",
      "kill her", "kill them", "shoot up", "school shooting", "mass shooting",
      "bomb recipe", "how to make a bomb", "how to build a bomb",
      "suicide tutorial", "suicide instructions", "rape", "lynch",
      "hang yourself", "behead" }

PROFANITY_WORDS ==
    { "fuck", "fucking", "fucked", "motherfucker", "shit", "bullshit", "bitch",
      "bitches", "asshole", "dickhead", "bastard", "Cunt" }

SENSITIVE_EQUIPMENT_KEYWORDS ==
    { "stealth", "fighter", "fighter jet", "fighter aircraft",
      "military aircraft", "stealth aircraft", "combat aircraft",
      "jet aircraft", "f-22", "f-35", "b-2" }

PART_SERIAL_TERMS ==
    { "serial", "serial no", "serial number", "part name", "part number",
      "component id", "component number", "tail number" }

naive_unsafe_check(pages) ==
    LET text == LowerText(JoinTexts(pages))
    IN  \E kw \in UNSAFE_KEYWORDS : kw \in text

ProfanityHit(p) ==
    LET text == LowerText(p.text)
    IN  IF \E word \in PROFANITY_WORDS : word \in text THEN <<p.page_num>> ELSE <<>>

RECURSIVE profanity_pages(_)
profanity_pages(pages) ==
    IF pages = <<>> THEN <<>> ELSE ProfanityHit(Head(pages)) \o profanity_pages(Tail(pages))

EquipmentHit(p) ==
    LET text == LowerText(p.text)
        has_aircraft == \E k \in SENSITIVE_EQUIPMENT_KEYWORDS : k \in text
        has_serial_or_parts == \E t \in PART_SERIAL_TERMS : t \in text
    IN  IF text # {} /\ has_aircraft /\ has_serial_or_parts THEN <<p.page_num>> ELSE <<>>

RECURSIVE sensitive_equipment_pages(_)
sensitive_equipment_pages(pages) ==
    IF pages = <<>> THEN <<>> ELSE EquipmentHit(Head(pages)) \o sensitive_equipment_pages(Tail(pages))

\* ------------------------------------------------------------------------
\* backend/pii_detection.py
\* ------------------------------------------------------------------------

\* The vocabulary phrases each regular expression matches.
SSN_REGEX ==
    { "123-45-6789" }

EMAIL_REGEX ==
    { "a@b.com" }

PHONE_REGEX ==
    { "555-123-4567" }

\* The findings of one regular expression on one page (one match at most
\* per page in this vocabulary), as find_pii appends them.  A finding's
\* snippet (the text around the match) is left out: nothing reads it.
Findings(p, regex, type) ==
    LET hits == p.text \cap regex
    IN  IF hits = {} THEN <<>>
        ELSE <<[type |-> type, page |-> p.page_num, value |-> CHOOSE v \in hits : TRUE]>>

PiiOfPage(p) ==
    Findings(p, SSN_REGEX, "ssn") \o Findings(p, EMAIL_REGEX, "email") \o Findings(p, PHONE_REGEX, "phone")

RECURSIVE find_pii(_)
find_pii(pages) ==
    IF pages = <<>> THEN <<>> ELSE PiiOfPage(Head(pages)) \o find_pii(Tail(pages))

\* ------------------------------------------------------------------------
\* backend/ingestion.py
\* ------------------------------------------------------------------------

\* name.lower().endswith(".pdf") on the file names of the model.
IsPdfName(name) ==
    name \in { "report.pdf", "REPORT.PDF" }

\* Pages numbered from 1 with their extracted text, as _process_pdf builds them.
NumberPages(raw) ==
    [i \in 1..Len(raw) |-> [page_num |-> i, text |-> raw[i].text]]

RECURSIVE CountImages(_)
CountImages(raw) ==
    IF raw = <<>> THEN 0 ELSE Head(raw).images + CountImages(Tail(raw))

process_pdf(raw) ==
    [num_pages |-> Len(raw),
     num_images |-> CountImages(raw),
     pages |-> NumberPages(raw),
     legible |-> \E i \in 1..Len(raw) : raw[i].text # {}]

process_image(decodes) ==
    [num_pages |-> 1,
     num_images |-> 1,
     pages |-> <<[page_num |-> 1, text |-> {}]>>,
     legible |-> decodes]

process_file(uploaded_file) ==
    IF IsPdfName(uploaded_file.name)
    THEN process_pdf(uploaded_file.pages)
    ELSE process_image(uploaded_file.decodes)

\* ------------------------------------------------------------------------
\* backend/classification.py: prompt selection, Gateway reply, policy words
\* ------------------------------------------------------------------------

PRIMARY_MODEL ==
    "meta-llama/llama-3.1-8b-instruct"

VALIDATOR_MODEL ==
    "meta-llama/llama-3.1-70b-instruct"

VALIDATION_THRESHOLD == 60

\* The prompt is the concatenation of the templates the configuration lists
\* under the chosen key; it is kept as that key.
build_system_prompt(context_flags) ==
    IF context_flags.unsafe_keyword_flag THEN "unsafe"
    ELSE IF context_flags.has_ssn \/ context_flags.has_pii THEN "sensitive"
    ELSE "public"

\* A field of the JSON object the model replied with: absent, or a value.
Absent ==
    [present |-> FALSE, value |-> <<>>]

Present(v) ==
    [present |-> TRUE, value |-> <<v>>]

\* llm_raw.get(key, default)
Get(field, default) ==
    IF field.present THEN field.value[1] ELSE default

\* float(llm_raw.get("confidence", 0.6)) with the TypeError / ValueError
\* fallback, then the clamp to [0, 1].  A raw confidence is a number or a
\* value float() rejects.
NormalizeConfidence(field) ==
    LET raw == Get(field, [number |-> TRUE, n |-> 60])
        parsed == IF raw.number THEN raw.n ELSE 60
    IN  Max(0, Min(100, parsed))

\* Lines 68-86 of run_llm_classification: the reply, normalised.
NormalizeReply(llm_raw) ==
    LET unsafe == Get(llm_raw.unsafe, FALSE)
    IN  [category |-> Get(llm_raw.category, <<"Public">>),
         unsafe |-> unsafe,
         kid_safe |-> Get(llm_raw.kid_safe, ~unsafe),
         confidence |-> NormalizeConfidence(llm_raw.confidence),
         reasoning |-> Get(llm_raw.reasoning, <<"No reasoning provided.">>),
         citations |-> Get(llm_raw.citations, <<>>)]

INTERNAL_WORDS ==
    { "internal use", "restricted circulation", "proposal", "confidential memo", "research" }

TEMPLATE_WORDS ==
    { "template", "editable", "shared" }

\* The vocabulary phrases (fighter|aircraft|drone|missile|f-\d+|serial\s?(no\.|number|#)) matches.
EQUIPMENT_PATTERN ==
    { "fighter", "aircraft", "drone", "missile", "f-22", "f-35", "serial no.", "serial number", "serial #" }

detect_policy_keywords(text) ==
    LET low == LowerText(text)
    IN  [internal |-> \E w \in INTERNAL_WORDS : w \in low,
         template |-> \E w \in TEMPLATE_WORDS : w \in low,
         equipment |-> \E w \in EQUIPMENT_PATTERN : w \in low]

MARKETING_WORDS ==
    { "brochure", "marketing", "customer story", "press release",
      "product portfolio", "case study", "advertisement" }

OPERATIONAL_WORDS ==
    { "flight", "manual", "operations", "safety" }

\* ------------------------------------------------------------------------
\* backend/classification.py: the stages of classify_document
\* ------------------------------------------------------------------------

\* Python's None, for a local not yet bound and for  validator = None.
None ==
    [none |-> TRUE]

\* f.get("is_business"): find_pii attaches no such key.
IsBusiness(f) ==
    "is_business" \in DOMAIN f /\ f.is_business

\* [f for f in pii_raw if not (f.get("type") == "email" and f.get("is_business"))]
RECURSIVE FilterBusiness(_)
FilterBusiness(pii_raw) ==
    IF pii_raw = <<>> THEN <<>>
    ELSE (IF Head(pii_raw).type = "email" /\ IsBusiness(Head(pii_raw)) THEN <<>> ELSE <<Head(pii_raw)>>)
         \o FilterBusiness(Tail(pii_raw))

\* Lines 129-143: the payload sent to the model.  The page texts of the
\* model are far below the 800 characters at which a summary is cut.
BuildPayload(doc, findings, unsafe_kw, profane) ==
    [num_pages |-> doc.num_pages,
     num_images |-> doc.num_images,
     pii_findings |-> findings,
     unsafe_keyword_flag |-> unsafe_kw,
     profanity_pages |-> profane,
     page_summaries |-> [i \in DOMAIN doc.pages |-> [page |-> doc.pages[i].page_num, text |-> doc.pages[i].text]]]

\* The request run_llm_classification hands to call_openrouter_chat.
Request(model, prompt, payload) ==
    [model |-> model, system_prompt |-> prompt, user_prompt |-> payload, status |-> "pending"]

\* The gate with the threshold itself taken for low confidence.
NeedsValidationInclusive(p) ==
    p.confidence <= VALIDATION_THRESHOLD

\* Line 150: whether the validator is consulted.
NeedsValidation(p) ==
    p.confidence < VALIDATION_THRESHOLD

\* Lines 161-163.
Disagreement(p, v) ==
    v.category # p.category \/ v.unsafe # p.unsafe

\* Lines 170-176: the synthesized explanation.
CrossCheckReasoning(p, v) ==
    <<"Validator cross-check: 70B disagreed with 8B.", "Primary said '">> \o p.category
    \o <<"', validator said '">> \o v.category
    \o <<"'.", "Validator chosen for higher precision.", "Primary reasoning: ">> \o p.reasoning
    \o <<"Validator reasoning: ">> \o v.reasoning

\* The resolution with the validator's reply taken whenever there is one,
\* agreement or not.
ResolveModelsValidatorWins(p, v) ==
    IF v # None
    THEN [category |-> v.category,
          unsafe |-> v.unsafe,
          kid_safe |-> v.kid_safe,
          confidence |-> Min(Min(p.confidence, v.confidence), 70),
          reasoning |-> CrossCheckReasoning(p, v),
          citations |-> p.citations \o v.citations]
    ELSE [category |-> p.category,
          unsafe |-> p.unsafe,
          kid_safe |-> p.kid_safe,
          confidence |-> p.confidence,
          reasoning |-> p.reasoning,
          citations |-> p.citations]

\* The resolution with the validator's citations put in front of the
\* primary's.
ResolveModelsValidatorFirst(p, v) ==
    IF v # None /\ Disagreement(p, v)
    THEN [category |-> v.category,
          unsafe |-> v.unsafe,
          kid_safe |-> v.kid_safe,
          confidence |-> Min(Min(p.confidence, v.confidence), 70),
          reasoning |-> CrossCheckReasoning(p, v),
          citations |-> v.citations \o p.citations]
    ELSE [category |-> p.category,
          unsafe |-> p.unsafe,
          kid_safe |-> p.kid_safe,
          confidence |-> p.confidence,
          reasoning |-> p.reasoning,
          citations |-> p.citations]

\* Lines 153-177: the models' answer before the deterministic rules.
ResolveModels(p, v) ==
    IF v # None /\ Disagreement(p, v)
    THEN [category |-> v.category,
          unsafe |-> v.unsafe,
          kid_safe |-> v.kid_safe,
          confidence |-> Min(Min(p.confidence, v.confidence), 70),
          reasoning |-> CrossCheckReasoning(p, v),
          citations |-> p.citations \o v.citations]
    ELSE [category |-> p.category,
          unsafe |-> p.unsafe,
          kid_safe |-> p.kid_safe,
          confidence |-> p.confidence,
          reasoning |-> p.reasoning,
          citations |-> p.citations]

\* The unsafe override without the test for "Unsafe" in the category.
UnsafeOverrideAlways(cat, unsafe) ==
    IF unsafe
    THEN (IF cat # <<>> THEN cat \o <<" and ", "Unsafe">> ELSE <<"Unsafe">>)
    ELSE cat

\* Lines 183-184.
UnsafeOverride(cat, unsafe) ==
    IF unsafe /\ ~Has(cat, "Unsafe")
    THEN (IF cat # <<>> THEN cat \o <<" and ", "Unsafe">> ELSE <<"Unsafe">>)
    ELSE cat

\* The SSN override with the confidence set to 0.9 outright.
SsnOverrideReset(cat, conf, ssn) ==
    IF ssn /\ ~Has(cat, "Highly Sensitive")
    THEN [category |-> IF ~Has(cat, "Unsafe") THEN <<"Highly Sensitive">> ELSE <<"Highly Sensitive", " and ", "Unsafe">>,
          confidence |-> 90]
    ELSE [category |-> cat, confidence |-> conf]

\* Lines 187-189.
SsnOverride(cat, conf, ssn) ==
    IF ssn /\ ~Has(cat, "Highly Sensitive")
    THEN [category |-> IF ~Has(cat, "Unsafe") THEN <<"Highly Sensitive">> ELSE <<"Highly Sensitive", " and ", "Unsafe">>,
          confidence |-> Max(conf, 90)]
    ELSE [category |-> cat, confidence |-> conf]

\* Lines 183-189: the unsafe override and then the SSN override, on the
\* category and the confidence.
UnsafeSsnOverlay(cat, conf, unsafe, ssn) ==
    SsnOverride(UnsafeOverride(cat, unsafe), conf, ssn)

\* Lines 197-203.
IsMarketingOrPublic(full_text) ==
    \E kw \in MARKETING_WORDS : kw \in LowerText(full_text)

INTERNAL_BLOCK ==
    "Policy rule: Detected internal or restricted-use document (e.g., memo/proposal). Classified as Confidential."

EQUIPMENT_BLOCK ==
    "Policy rule: Contains identifiable aircraft or sensitive equipment serials. Classified as Confidential even if text appears public."

TEMPLATE_BLOCK ==
    "Policy rule: Editable or shared operational template detected; classified as Confidential due to potential misuse."

FALLBACK_BLOCK ==
    "Policy rule: Detected diagrams of military aircraft or sensitive equipment; classified as Confidential even if surrounding text is public-facing."

PolicyCitation(reason) ==
    [page |-> 1, reason |-> <<reason>>]

\* The chain with the marketing guard on the fallback branch too.
PolicyBranchesGuardedFallback(policies, equipment_found, is_marketing_or_public, operational) ==
    IF policies.internal THEN <<"internal">>
    ELSE IF (equipment_found \/ policies.equipment) /\ ~is_marketing_or_public THEN <<"equipment">>
    ELSE IF policies.template /\ ~is_marketing_or_public THEN (IF operational THEN <<"template">> ELSE <<>>)
    ELSE IF equipment_found /\ ~is_marketing_or_public THEN <<"fallback">>
    ELSE <<>>

\* The chain written with if in place of elif: every branch whose condition
\* holds runs.
PolicyBranchesIndependent(policies, equipment_found, is_marketing_or_public, operational) ==
    (IF policies.internal THEN <<"internal">> ELSE <<>>)
    \o (IF (equipment_found \/ policies.equipment) /\ ~is_marketing_or_public THEN <<"equipment">> ELSE <<>>)
    \o (IF policies.template /\ ~is_marketing_or_public /\ operational THEN <<"template">> ELSE <<>>)
    \o (IF equipment_found THEN <<"fallback">> ELSE <<>>)

\* Lines 206, 216, 226-227 and 237: the if / elif chain, as the branches
\* whose body runs (the first whose condition holds, or none).
PolicyBranches(policies, equipment_found, is_marketing_or_public, operational) ==
    IF policies.internal THEN <<"internal">>
    ELSE IF (equipment_found \/ policies.equipment) /\ ~is_marketing_or_public THEN <<"equipment">>
    ELSE IF policies.template /\ ~is_marketing_or_public THEN (IF operational THEN <<"template">> ELSE <<>>)
    ELSE IF equipment_found THEN <<"fallback">>
    ELSE <<>>

\* The body of one branch, on the locals r = (category, confidence,
\* reasoning, citations).
ApplyBranch(r, branch) ==
    CASE branch = "internal" ->
            [category |-> <<"Confidential">>,
             confidence |-> Max(r.confidence, 85),
             reasoning |-> Append(r.reasoning, INTERNAL_BLOCK),
             citations |-> Append(r.citations, PolicyCitation("Detected internal or restricted-use wording"))]
      [] branch = "equipment" ->
            [category |-> <<"Confidential">>,
             confidence |-> Max(r.confidence, 90),
             reasoning |-> Append(r.reasoning, EQUIPMENT_BLOCK),
             citations |-> Append(r.citations, PolicyCitation("Detected aircraft/serial references"))]
      [] branch = "template" ->
            [category |-> <<"Confidential">>,
             confidence |-> Max(r.confidence, 85),
             reasoning |-> Append(r.reasoning, TEMPLATE_BLOCK),
             citations |-> Append(r.citations, PolicyCitation("Detected shared editable operational template"))]
      [] branch = "fallback" ->
            [category |-> IF ~Has(r.category, "Confidential") /\ ~Has(r.category, "Highly Sensitive")
                          THEN <<"Confidential">> ELSE r.category,
             confidence |-> Max(r.confidence, 80),
             reasoning |-> Append(r.reasoning, FALLBACK_BLOCK),
             citations |-> r.citations]

RECURSIVE ApplyBranches(_, _)
ApplyBranches(r, branches) ==
    IF branches = <<>> THEN r ELSE ApplyBranches(ApplyBranch(r, Head(branches)), Tail(branches))

\* Lines 192-244: the policy overlay.
PolicyOverlay(r, full_text, equipment_found) ==
    LET policies == detect_policy_keywords(full_text)
        text_lower == LowerText(full_text)
        is_marketing_or_public == IsMarketingOrPublic(full_text)
        operational == \E k \in OPERATIONAL_WORDS : k \in text_lower
    IN  ApplyBranches(r, PolicyBranches(policies, equipment_found, is_marketing_or_public, operational))

\* f['type'].upper()
Upper(type) ==
    CASE type = "ssn" -> "SSN"
      [] type = "email" -> "EMAIL"
      [] type = "phone" -> "PHONE"
      [] OTHER -> type

\* Lines 247-248.
PiiCitations(findings) ==
    [i \in DOMAIN findings |-> [page |-> findings[i].page, reason |-> <<"Detected ", Upper(findings[i].type), ": ", findings[i].value>>]]

\* Lines 249-250.
ProfanityCitations(profane) ==
    [i \in DOMAIN profane |-> [page |-> profane[i], reason |-> <<"Strong profanity detected (not kid-safe).">>]]

\* Kid-safe normalisation that takes a page of sensitive equipment for not
\* kid-safe.
KidSafeFinalEquipment(unsafe, profane, equipment_found) ==
    (~unsafe) /\ (profane = <<>>) /\ ~equipment_found

\* Lines 254-256.
KidSafeFinal(unsafe, profane, equipment_found) ==
    LET kid_safe_final == (~unsafe) /\ (profane = <<>>)
    IN  IF equipment_found /\ kid_safe_final THEN TRUE ELSE kid_safe_final

\* Lines 259-260.
BusinessNote(reas, unsafe, pii_raw) ==
    IF ~unsafe /\ (\E i \in DOMAIN pii_raw : IsBusiness(pii_raw[i]))
    THEN Append(reas, "Note: Detected only public business contact info - does not increase sensitivity.")
    ELSE reas

\* ------------------------------------------------------------------------
\* Inputs: uploaded files and Gateway replies
\* ------------------------------------------------------------------------

MaxImages == 1

\* The phrases a one-page PDF of the model is made of.
PagePhrases ==
    { "how to make a bomb", "Shit", "123-45-6789", "Internal Use", "template",
      "flight", "F-22", "tail number", "Brochure" }

PdfUpload(raw_pages) ==
    [name |-> "report.pdf", pages |-> raw_pages, decodes |-> TRUE]

\* Every one-page PDF over PagePhrases, with 0..MaxImages pictures on the page.
OnePageUploads ==
    { PdfUpload(<<[text |-> t, images |-> n]>>) : t \in SUBSET PagePhrases, n \in 0..MaxImages }

\* PDFs of several pages, where the page a phrase stands on matters, and
\* phrases outside PagePhrases.
ManyPageUploads ==
    { PdfUpload(<<[text |-> {"stealth"}, images |-> 1], [text |-> {"tail number"}, images |-> 0]>>),
      PdfUpload(<<[text |-> {"stealth", "tail number"}, images |-> 1], [text |-> {"Brochure"}, images |-> 0]>>),
      PdfUpload(<<[text |-> {"stealth", "tail number"}, images |-> 0], [text |-> {}, images |-> 1]>>),
      PdfUpload(<<[text |-> {"hello"}, images |-> 0], [text |-> {"Shit", "a@b.com"}, images |-> 0], [text |-> {"123-45-6789", "555-123-4567"}, images |-> 0]>>),
      PdfUpload(<<[text |-> {"Cunt"}, images |-> 0]>>),
      PdfUpload(<<>>) }

\* A picture: process_file takes every name not ending in .pdf for one.
ImageUploads ==
    { [name |-> "scan.png", pages |-> <<>>, decodes |-> d] : d \in BOOLEAN }

Uploads ==
    OnePageUploads \cup ManyPageUploads \cup ImageUploads

\* The category strings of the result type: the four base labels, the
\* compound forms, and the empty string.
CATEGORIES ==
    { <<"Public">>, <<"Confidential">>, <<"Highly Sensitive">>, <<"Unsafe">> }

CompoundCategories ==
    { <<a, " and ", "Unsafe">> : a \in { "Public", "Confidential", "Highly Sensitive" } }

ReplyCategories ==
    CATEGORIES \cup CompoundCategories \cup { <<>> }

Number(n) ==
    [number |-> TRUE, n |-> n]

NotANumber ==
    [number |-> FALSE, n |-> 0]

RawReply(cat, unsafe, kid, conf, reas, cits) ==
    [category |-> cat, unsafe |-> unsafe, kid_safe |-> kid, confidence |-> conf, reasoning |-> reas, citations |-> cits]

ModelCitation(who) ==
    [page |-> 1, reason |-> <<who>>]

\* Replies of the primary model: every category with and without the unsafe
\* flag, confidence left out; and replies over the confidences a reply can
\* carry (below, at and above the threshold, above 1, not a number); and a
\* reply of low confidence that carries reasoning and a citation.
PrimaryReplies ==
    { RawReply(c, u, Absent, Absent, Present(<<"8B reasoning">>), Present(<<ModelCitation("8B citation")>>)) :
        c \in { Present(x) : x \in ReplyCategories } \cup { Absent }, u \in { Absent, Present(TRUE) } }
    \cup
    { RawReply(Present(c), Present(u), Present(TRUE), f, Absent, Absent) :
        c \in { <<"Public">>, <<"Highly Sensitive">> }, u \in BOOLEAN,
        f \in { Present(Number(40)), Present(Number(60)), Present(Number(150)), Present(NotANumber) } }
    \cup
    { RawReply(Present(<<"Public">>), Present(FALSE), Absent, Present(Number(40)), Present(<<"8B reasoning">>), Present(<<ModelCitation("8B citation")>>)) }

\* Replies of the validator model.
ValidatorReplies ==
    { RawReply(Present(c), Present(u), Present(FALSE), f, Present(<<"70B reasoning">>), Present(<<ModelCitation("70B citation")>>)) :
        c \in { <<"Public">>, <<"Confidential", " and ", "Unsafe">> }, u \in BOOLEAN,
        f \in { Present(Number(95)), Present(Number(-5)) } }

\* What the reviewer picks in the override box, and the comment typed.
OVERRIDE_OPTIONS ==
    { <<"No override">>, <<"Public">>, <<"Confidential">>, <<"Highly Sensitive">>, <<"Unsafe">>, <<"Confidential", " and ", "Unsafe">> }

ReviewOverrides ==
    { <<"No override">>, <<"Confidential", " and ", "Unsafe">> }

ReviewComments ==
    { "" }

\* The browser sessions that may save at the same time.
Sessions ==
    { 1, 2 }

\* ------------------------------------------------------------------------
\* backend/storage.py
\* ------------------------------------------------------------------------

\* history.json: absent, or a text that is a JSON array ("json", with its
\* objects), the empty text an open(path, "w") leaves, or a text no parser
\* accepts.
MissingFile ==
    [exists |-> FALSE, text |-> "", items |-> <<>>]

TruncatedFile ==
    [exists |-> TRUE, text |-> "", items |-> <<>>]

GarbledFile ==
    [exists |-> TRUE, text |-> "garbled", items |-> <<>>]

\* json.dump of one entry: the object's members, in the order of the dict.
JsonObject(entry) ==
    << <<"filename", entry.filename>>, <<"pages", entry.pages>>, <<"images", entry.images>>,
       <<"ai_category", entry.ai_category>>, <<"final_category", entry.final_category>>,
       <<"unsafe", entry.unsafe>>, <<"kid_safe", entry.kid_safe>>, <<"confidence", entry.confidence>>,
       <<"timestamp", entry.timestamp>>, <<"reviewer_comment", entry.reviewer_comment>> >>

\* The value of member key in a parsed object.
Member(object, key) ==
    object[CHOOSE i \in DOMAIN object : object[i][1] = key][2]

\* json.load of one object: the dict with its members.
JsonParse(object) ==
    [filename |-> Member(object, "filename"), pages |-> Member(object, "pages"), images |-> Member(object, "images"),
     ai_category |-> Member(object, "ai_category"), final_category |-> Member(object, "final_category"),
     unsafe |-> Member(object, "unsafe"), kid_safe |-> Member(object, "kid_safe"), confidence |-> Member(object, "confidence"),
     timestamp |-> Member(object, "timestamp"), reviewer_comment |-> Member(object, "reviewer_comment")]

\* Lines 50-51: the file after json.dump(history, f) on an empty file.
DumpedFile(history) ==
    [exists |-> TRUE, text |-> "json", items |-> [i \in DOMAIN history |-> JsonObject(history[i])]]

\* Lines 11-21.
load_history(f) ==
    IF ~f.exists THEN <<>>
    ELSE IF f.text # "json" THEN <<>>
    ELSE [i \in DOMAIN f.items |-> JsonParse(f.items[i])]

\* Lines 34-45: the entry of one call; now is datetime.utcnow().
BuildEntry(args, now) ==
    [filename |-> args.filename,
     pages |-> args.doc_info.num_pages,
     images |-> args.doc_info.num_images,
     ai_category |-> args.ai_result.category,
     final_category |-> args.final_category,
     unsafe |-> args.ai_result.unsafe,
     kid_safe |-> args.ai_result.kid_safe,
     confidence |-> args.ai_result.confidence,
     timestamp |-> <<now, "Z">>,
     reviewer_comment |-> args.reviewer_comment]

\* The new entry put first: history.insert(0, entry).
LoadAndInsertFirst(f, args, now) ==
    <<BuildEntry(args, now)>> \o load_history(f)

\* Lines 32-47: the history read and the new entry appended to it.
LoadAndAppend(f, args, now) ==
    Append(load_history(f), BuildEntry(args, now))

\* save_result as a whole, for a call that no other call overlaps.
save_result(f, args, now) ==
    DumpedFile(LoadAndAppend(f, args, now))

SaveArgs(filename, doc, ai_result, final_category, reviewer_comment) ==
    [filename |-> filename, doc_info |-> doc, ai_result |-> ai_result, final_category |-> final_category, reviewer_comment |-> reviewer_comment]

IdleSaver ==
    [pc |-> "idle", args |-> None, history |-> <<>>]

InitStore ==
    /\ file = MissingFile
    /\ savers = [s \in Sessions |-> IdleSaver]
    /\ clock = 0

\* ------------------------------------------------------------------------
\* app.py and classify_document as steps
\* ------------------------------------------------------------------------

InitClassify(files) ==
    /\ upload \in files
    /\ doc_info = None
    /\ pc = "uploaded"
    /\ pii = <<>>
    /\ unsafe_flag_heuristic = FALSE
    /\ prof_pages = <<>>
    /\ has_ssn = FALSE
    /\ has_sensitive_equipment = FALSE
    /\ system_prompt = ""
    /\ user_payload = None
    /\ calls = <<>>
    /\ primary = None
    /\ validator = None
    /\ category = <<>>
    /\ unsafe_flag_llm = FALSE
    /\ kid_safe = FALSE
    /\ confidence = 0
    /\ reasoning = <<>>
    /\ citations = <<>>
    /\ unsafe_flag = FALSE
    /\ result = None

\* The last request, marked with how it ended.
EndCall(cs, status) ==
    [cs EXCEPT ![Len(cs)].status = status]

\* app.py lines 35 and 48, classify_document lines 105-146 up to the call of
\* the primary model.
Analyze ==
    /\ pc = "uploaded"
    /\ LET doc == process_file(upload)
           pages == doc.pages
           pii_raw == find_pii(pages)
           findings == FilterBusiness(pii_raw)
           unsafe_kw == naive_unsafe_check(pages)
           profane == profanity_pages(pages)
           ssn == \E i \in DOMAIN findings : findings[i].type = "ssn"
           equipment_pages == sensitive_equipment_pages(pages)
           prompt == build_system_prompt([unsafe_keyword_flag |-> unsafe_kw, has_ssn |-> ssn, has_pii |-> findings # <<>>])
           payload == BuildPayload(doc, findings, unsafe_kw, profane)
       IN  /\ doc_info' = doc
           /\ pii' = findings
           /\ unsafe_flag_heuristic' = unsafe_kw
           /\ prof_pages' = profane
           /\ has_ssn' = ssn
           /\ has_sensitive_equipment' = (equipment_pages # <<>> /\ doc.num_images > 0)
           /\ system_prompt' = prompt
           /\ user_payload' = payload
           /\ calls' = <<Request(PRIMARY_MODEL, prompt, payload)>>
    /\ pc' = "primary"
    /\ UNCHANGED <<upload, primary, validator, category, unsafe_flag_llm, kid_safe, confidence, reasoning, citations, unsafe_flag, result>>
    /\ UNCHANGED storeVars

\* Line 146 returns; line 150 decides on the validator and line 151 calls it.
PrimaryReturn(replies) ==
    /\ pc = "primary"
    /\ \E llm_raw \in replies :
        LET p == NormalizeReply(llm_raw)
        IN  /\ primary' = p
            /\ IF NeedsValidation(p)
               THEN /\ calls' = Append(EndCall(calls, "returned"), Request(VALIDATOR_MODEL, system_prompt, user_payload))
                    /\ pc' = "validator"
               ELSE /\ calls' = EndCall(calls, "returned")
                    /\ pc' = "resolve"
    /\ UNCHANGED <<upload, doc_info, pii, unsafe_flag_heuristic, prof_pages, has_ssn, has_sensitive_equipment, system_prompt, user_payload, validator, category, unsafe_flag_llm, kid_safe, confidence, reasoning, citations, unsafe_flag, result>>
    /\ UNCHANGED storeVars

\* Line 151 returns.
ValidatorReturn(replies) ==
    /\ pc = "validator"
    /\ \E llm_raw \in replies : validator' = NormalizeReply(llm_raw)
    /\ calls' = EndCall(calls, "returned")
    /\ pc' = "resolve"
    /\ UNCHANGED <<upload, doc_info, pii, unsafe_flag_heuristic, prof_pages, has_ssn, has_sensitive_equipment, system_prompt, user_payload, primary, category, unsafe_flag_llm, kid_safe, confidence, reasoning, citations, unsafe_flag, result>>
    /\ UNCHANGED storeVars

\* A failure of the validator call caught, the primary reply standing alone.
GatewayFailsSwallowed ==
    /\ pc \in { "primary", "validator" }
    /\ calls' = EndCall(calls, "raised")
    /\ pc' = IF pc = "validator" THEN "resolve" ELSE "failed"
    /\ UNCHANGED <<upload, doc_info, pii, unsafe_flag_heuristic, prof_pages, has_ssn, has_sensitive_equipment, system_prompt, user_payload, primary, validator, category, unsafe_flag_llm, kid_safe, confidence, reasoning, citations, unsafe_flag, result>>
    /\ UNCHANGED storeVars

\* call_openrouter_chat raises (no key, transport error, status, bad JSON):
\* nothing catches it, in classify_document or in app.py.
GatewayFails ==
    /\ pc \in { "primary", "validator" }
    /\ calls' = EndCall(calls, "raised")
    /\ pc' = "failed"
    /\ UNCHANGED <<upload, doc_info, pii, unsafe_flag_heuristic, prof_pages, has_ssn, has_sensitive_equipment, system_prompt, user_payload, primary, validator, category, unsafe_flag_llm, kid_safe, confidence, reasoning, citations, unsafe_flag, result>>
    /\ UNCHANGED storeVars

\* Lines 153-177.
Resolve ==
    /\ pc = "resolve"
    /\ LET r == ResolveModels(primary, validator)
       IN  /\ category' = r.category
           /\ unsafe_flag_llm' = r.unsafe
           /\ kid_safe' = r.kid_safe
           /\ confidence' = r.confidence
           /\ reasoning' = r.reasoning
           /\ citations' = r.citations
    /\ pc' = "overlay"
    /\ UNCHANGED <<upload, doc_info, pii, unsafe_flag_heuristic, prof_pages, has_ssn, has_sensitive_equipment, system_prompt, user_payload, calls, primary, validator, unsafe_flag, result>>
    /\ UNCHANGED storeVars

\* Lines 180-189.
Overlay ==
    /\ pc = "overlay"
    /\ LET flag == unsafe_flag_llm \/ unsafe_flag_heuristic
           r == SsnOverride(UnsafeOverride(category, flag), confidence, has_ssn)
       IN  /\ unsafe_flag' = flag
           /\ category' = r.category
           /\ confidence' = r.confidence
    /\ pc' = "policy"
    /\ UNCHANGED <<upload, doc_info, pii, unsafe_flag_heuristic, prof_pages, has_ssn, has_sensitive_equipment, system_prompt, user_payload, calls, primary, validator, unsafe_flag_llm, kid_safe, reasoning, citations, result>>
    /\ UNCHANGED storeVars

\* Lines 192-244.
Policy ==
    /\ pc = "policy"
    /\ LET r == PolicyOverlay([category |-> category, confidence |-> confidence, reasoning |-> reasoning, citations |-> citations],
                              JoinTexts(doc_info.pages), has_sensitive_equipment)
       IN  /\ category' = r.category
           /\ confidence' = r.confidence
           /\ reasoning' = r.reasoning
           /\ citations' = r.citations
    /\ pc' = "cite"
    /\ UNCHANGED <<upload, doc_info, pii, unsafe_flag_heuristic, prof_pages, has_ssn, has_sensitive_equipment, system_prompt, user_payload, calls, primary, validator, unsafe_flag_llm, kid_safe, unsafe_flag, result>>
    /\ UNCHANGED storeVars

\* Lines 247-269: the citations of the findings, the kid-safe flag, the
\* business note and the returned result.
Finish ==
    /\ pc = "cite"
    /\ LET cited == citations \o PiiCitations(pii) \o ProfanityCitations(prof_pages)
           noted == BusinessNote(reasoning, unsafe_flag, find_pii(doc_info.pages))
       IN  /\ citations' = cited
           /\ reasoning' = noted
           /\ result' = [category |-> category,
                         unsafe |-> unsafe_flag,
                         kid_safe |-> KidSafeFinal(unsafe_flag, prof_pages, has_sensitive_equipment),
                         confidence |-> confidence,
                         reasoning |-> noted,
                         citations |-> cited]
    /\ pc' = "done"
    /\ UNCHANGED <<upload, doc_info, pii, unsafe_flag_heuristic, prof_pages, has_ssn, has_sensitive_equipment, system_prompt, user_payload, calls, primary, validator, category, unsafe_flag_llm, kid_safe, confidence, unsafe_flag>>
    /\ UNCHANGED storeVars

\* app.py lines 85-96: the reviewer saves the result shown.
SaveReview ==
    /\ pc = "done"
    /\ \E override \in ReviewOverrides, comment \in ReviewComments :
        LET final_category == IF override = <<"No override">> THEN result.category ELSE override
            args == SaveArgs(upload.name, doc_info, result, final_category, comment)
        IN  /\ file' = save_result(file, args, clock)
            /\ savers' = [savers EXCEPT ![1] = [pc |-> "idle", args |-> args, history |-> LoadAndAppend(file, args, clock)]]
    /\ clock' = clock + 1
    /\ pc' = "saved"
    /\ UNCHANGED <<upload, doc_info, pii, unsafe_flag_heuristic, prof_pages, has_ssn, has_sensitive_equipment, system_prompt, user_payload, calls, primary, validator, category, unsafe_flag_llm, kid_safe, confidence, reasoning, citations, unsafe_flag, result>>

Init ==
    InitClassify(Uploads) /\ InitStore

Next ==
    \/ Analyze
    \/ PrimaryReturn(PrimaryReplies)
    \/ ValidatorReturn(ValidatorReplies)
    \/ GatewayFails
    \/ Resolve
    \/ Overlay
    \/ Policy
    \/ Finish
    \/ SaveReview

Spec ==
    Init /\ [][Next]_vars

\* ------------------------------------------------------------------------
\* save_result called from several sessions
\* ------------------------------------------------------------------------

MaxSaves == 2

\* The arguments the sessions save with.
StoredResults ==
    { [category |-> <<"Public">>, unsafe |-> FALSE, kid_safe |-> TRUE, confidence |-> 60],
      [category |-> <<"Confidential", " and ", "Unsafe">>, unsafe |-> TRUE, kid_safe |-> FALSE, confidence |-> 95] }

SaveCalls ==
    { SaveArgs(n, [num_pages |-> 1, num_images |-> 0], r, c, "") :
        n \in { "a.pdf", "b.pdf" }, r \in StoredResults, c \in { <<"Public">>, <<"Highly Sensitive">> } }

\* The store the sessions find: absent, empty, holding an entry, or a text
\* that does not parse.
EarlierEntry ==
    BuildEntry(SaveArgs("old.pdf", [num_pages |-> 3, num_images |-> 1], [category |-> <<"Unsafe">>, unsafe |-> TRUE, kid_safe |-> FALSE, confidence |-> 70], <<"Unsafe">>, "seen"), 0)

WellFormedStores ==
    { MissingFile, DumpedFile(<<>>), DumpedFile(<<EarlierEntry>>) }

InitIdle ==
    /\ InitClassify({ PdfUpload(<<>>) })
    /\ savers = [s \in Sessions |-> IdleSaver]
    /\ clock = 1

\* Lines 32-47 of one call: load_history() and history.append(entry).
SaveLoad(s) ==
    /\ savers[s].pc = "idle"
    /\ clock <= MaxSaves
    /\ \E args \in SaveCalls :
        savers' = [savers EXCEPT ![s] = [pc |-> "loaded", args |-> args, history |-> LoadAndAppend(file, args, clock)]]
    /\ clock' = clock + 1
    /\ UNCHANGED file
    /\ UNCHANGED classifyVars

\* Line 50: open(path, "w") empties the file.
SaveOpen(s) ==
    /\ savers[s].pc = "loaded"
    /\ file' = TruncatedFile
    /\ savers' = [savers EXCEPT ![s].pc = "opened"]
    /\ UNCHANGED clock
    /\ UNCHANGED classifyVars

\* The file opened for appending: the new entry behind whatever is there.
WrittenFilesAppending(f, history) ==
    { DumpedFile(Append(load_history(f), history[Len(history)])) }

\* The file after this call's text is written from offset 0 and the file is
\* closed.  On the file as open() left it, it is the dumped history.  On a
\* text another call wrote meanwhile, it is the dumped history when that is
\* the longer text, and its bytes followed by the rest of the other text
\* when it is the shorter one.
WrittenFiles(f, history) ==
    IF f.text = "" THEN { DumpedFile(history) } ELSE { DumpedFile(history), GarbledFile }

\* Lines 50-51: json.dump and the close of the file.
SaveClose(s) ==
    /\ savers[s].pc = "opened"
    /\ file' \in WrittenFiles(file, savers[s].history)
    /\ savers' = [savers EXCEPT ![s].pc = "idle"]
    /\ UNCHANGED clock
    /\ UNCHANGED classifyVars

\* One whole save_result call, from any session, with no other in progress.
SaveAlone(s) ==
    /\ \A t \in Sessions : savers[t].pc = "idle"
    /\ clock <= MaxSaves
    /\ \E args \in SaveCalls :
        /\ file' = save_result(file, args, clock)
        /\ savers' = [savers EXCEPT ![s] = [pc |-> "idle", args |-> args, history |-> LoadAndAppend(file, args, clock)]]
    /\ clock' = clock + 1
    /\ UNCHANGED classifyVars

InitSequential ==
    InitIdle /\ file \in WellFormedStores

NextSequential ==
    \E s \in Sessions : SaveAlone(s)

SpecSequential ==
    InitSequential /\ [][NextSequential]_vars

InitConcurrent ==
    InitIdle /\ file \in WellFormedStores \cup { GarbledFile }

NextConcurrent ==
    \E s \in Sessions : SaveLoad(s) \/ SaveOpen(s) \/ SaveClose(s)

SpecConcurrent ==
    InitConcurrent /\ [][NextConcurrent]_vars

\* ------------------------------------------------------------------------
\* The unsafe / SSN overlay of classify_document, applied and applied again
\* ------------------------------------------------------------------------

\* The documents the overlay is run on: one page, with or without an unsafe
\* keyword phrase and an SSN.
OverlayUploads ==
    { PdfUpload(<<[text |-> t, images |-> 0]>>) : t \in SUBSET { "how to make a bomb", "123-45-6789" } }

\* The categories the overlay is run on: every category of a reply, a
\* lower-case label and a category that already carries "and Unsafe" twice.
OverlayCategories ==
    ReplyCategories \cup { <<"unsafe">>, <<"Public", " and ", "Unsafe", " and ", "Unsafe">> }

\* Replies of the primary model that need no validator.
OverlayReplies ==
    { RawReply(Present(c), Present(u), Absent, Present(Number(f)), Absent, Absent) :
        c \in OverlayCategories, u \in BOOLEAN, f \in { 60, 75, 90, 95, 100 } }

\* classify_document at line 180, the primary reply taken as it is
\* (lines 105-158 with no validator).
InitOverlay ==
    /\ upload \in OverlayUploads
    /\ \E llm_raw \in OverlayReplies :
        LET doc == process_file(upload)
            findings == FilterBusiness(find_pii(doc.pages))
            unsafe_kw == naive_unsafe_check(doc.pages)
            profane == profanity_pages(doc.pages)
            ssn == \E i \in DOMAIN findings : findings[i].type = "ssn"
            prompt == build_system_prompt([unsafe_keyword_flag |-> unsafe_kw, has_ssn |-> ssn, has_pii |-> findings # <<>>])
            payload == BuildPayload(doc, findings, unsafe_kw, profane)
            p == NormalizeReply(llm_raw)
        IN  /\ doc_info = doc
            /\ pii = findings
            /\ unsafe_flag_heuristic = unsafe_kw
            /\ prof_pages = profane
            /\ has_ssn = ssn
            /\ has_sensitive_equipment = (sensitive_equipment_pages(doc.pages) # <<>> /\ doc.num_images > 0)
            /\ system_prompt = prompt
            /\ user_payload = payload
            /\ calls = EndCall(<<Request(PRIMARY_MODEL, prompt, payload)>>, "returned")
            /\ primary = p
            /\ validator = None
            /\ category = p.category
            /\ unsafe_flag_llm = p.unsafe
            /\ kid_safe = p.kid_safe
            /\ confidence = p.confidence
            /\ reasoning = p.reasoning
            /\ citations = p.citations
    /\ pc = "overlay"
    /\ unsafe_flag = FALSE
    /\ result = None
    /\ InitStore

\* Lines 180-189 run once more on the category and confidence they left.
ReapplyOverlay ==
    /\ pc = "policy"
    /\ LET flag == unsafe_flag_llm \/ unsafe_flag_heuristic
           r == UnsafeSsnOverlay(category, confidence, flag, has_ssn)
       IN  /\ unsafe_flag' = flag
           /\ category' = r.category
           /\ confidence' = r.confidence
    /\ pc' = "reapplied"
    /\ UNCHANGED <<upload, doc_info, pii, unsafe_flag_heuristic, prof_pages, has_ssn, has_sensitive_equipment, system_prompt, user_payload, calls, primary, validator, unsafe_flag_llm, kid_safe, reasoning, citations, result>>
    /\ UNCHANGED storeVars

NextOverlay ==
    Overlay \/ ReapplyOverlay

SpecOverlay ==
    InitOverlay /\ [][NextOverlay]_vars

\* ------------------------------------------------------------------------
\* Properties
\* ------------------------------------------------------------------------

FullText ==
    JoinTexts(doc_info.pages)

POLICY_BLOCKS ==
    { INTERNAL_BLOCK, EQUIPMENT_BLOCK, TEMPLATE_BLOCK, FALLBACK_BLOCK }

POLICY_REASONS ==
    { <<"Detected internal or restricted-use wording">>, <<"Detected aircraft/serial references">>,
      <<"Detected shared editable operational template">> }

\* C1: the returned category contains "Unsafe" if and only if the returned
\* unsafe flag is true; in particular a text with an unsafe keyword phrase
\* ends with a category containing "Unsafe", whatever the models replied
\* and whichever policy branch ran.
C1_UnsafeIffInCategory ==
    result # None =>
        /\ (Has(result.category, "Unsafe") <=> result.unsafe)
        /\ (naive_unsafe_check(doc_info.pages) => Has(result.category, "Unsafe"))

\* C2: a document with an SSN finding ends with a category containing
\* "Highly Sensitive" and a confidence of at least 0.9, for every reply and
\* every combination of policy keywords.
C2_SsnHighlySensitive ==
    (result # None /\ (\E i \in DOMAIN pii : pii[i].type = "ssn")) =>
        (Has(result.category, "Highly Sensitive") /\ result.confidence >= 90)

C4_CategoryWellFormed ==
    result # None => result.category \in CATEGORIES \cup CompoundCategories

\* C5: in the policy step of a text the marketing guard holds for, the
\* equipment and template branches do not run; internal wording still forces
\* "Confidential"; and with sensitive equipment and no internal wording the
\* fallback branch runs, which forces "Confidential" exactly when the
\* category contains neither "Confidential" nor "Highly Sensitive".
C5_MarketingGuard ==
    [][(pc = "policy" /\ pc' = "cite" /\ IsMarketingOrPublic(FullText)) =>
         LET internal == detect_policy_keywords(FullText).internal
             free == ~Has(category, "Confidential") /\ ~Has(category, "Highly Sensitive")
         IN  /\ ~Has(reasoning', EQUIPMENT_BLOCK)
             /\ ~Has(reasoning', TEMPLATE_BLOCK)
             /\ internal => (category' = <<"Confidential">> /\ reasoning' = Append(reasoning, INTERNAL_BLOCK))
             /\ (has_sensitive_equipment /\ ~internal) =>
                    /\ reasoning' = Append(reasoning, FALLBACK_BLOCK)
                    /\ category' = IF free THEN <<"Confidential">> ELSE category]_vars

\* C5's case: a marketing text with sensitive equipment and no internal
\* wording, a reply of "Public", and the fallback branch has forced
\* "Confidential".
C5_Witness ==
    /\ pc = "cite"
    /\ IsMarketingOrPublic(FullText)
    /\ has_sensitive_equipment
    /\ ~detect_policy_keywords(FullText).internal
    /\ validator = None
    /\ primary.category = <<"Public">>
    /\ ~unsafe_flag
    /\ ~has_ssn
    /\ category = <<"Confidential">>
    /\ Has(reasoning, FALLBACK_BLOCK)

\* C6: at most one "Policy rule:" block is in the reasoning and at most one
\* policy citation in the citations, for every combination of the flags.
C6_OnePolicyBranch ==
    /\ Cardinality({ i \in DOMAIN reasoning : reasoning[i] \in POLICY_BLOCKS }) <= 1
    /\ Cardinality({ i \in DOMAIN citations : citations[i].reason \in POLICY_REASONS }) <= 1

\* C6's case: internal, equipment and template wording, sensitive equipment
\* and the marketing guard all hold, and one block was appended.
C6_Witness ==
    /\ result # None
    /\ LET policies == detect_policy_keywords(FullText)
       IN  policies.internal /\ policies.equipment /\ policies.template
    /\ has_sensitive_equipment
    /\ IsMarketingOrPublic(FullText)
    /\ Cardinality({ i \in DOMAIN reasoning : reasoning[i] \in POLICY_BLOCKS }) = 1

\* C7: once a Gateway call has raised, classify_document has raised: there
\* is no result, and no entry is written to the audit store.
C7_AllOrNothing ==
    (\E i \in DOMAIN calls : calls[i].status = "raised") =>
        (pc = "failed" /\ result = None /\ file = MissingFile)

\* C7's case: the primary replied with low confidence and the validator
\* call raised.
C7_Witness ==
    /\ pc = "failed"
    /\ Len(calls) = 2
    /\ calls[2].status = "raised"
    /\ primary # None
    /\ primary.confidence < 60

\* C8: a save_result call that no other overlaps leaves a well-formed store
\* whose history is the earlier history, unchanged and in order, followed by
\* one entry carrying the values passed to the call.
C8_AppendOnly ==
    [][\E s \in Sessions :
         LET earlier == load_history(file)
             later == load_history(file')
             entry == later[Len(later)]
             args == savers'[s].args
         IN  /\ file'.text = "json"
             /\ Len(later) = Len(earlier) + 1
             /\ SubSeq(later, 1, Len(earlier)) = earlier
             /\ args # None
             /\ entry.ai_category = args.ai_result.category
             /\ entry.final_category = args.final_category
             /\ entry.unsafe = args.ai_result.unsafe
             /\ entry.kid_safe = args.ai_result.kid_safe
             /\ entry.confidence = args.ai_result.confidence]_vars

\* C8's case: the store held an entry, and two saves of different files
\* have been added behind it.
C8_Witness ==
    LET history == load_history(file)
    IN  /\ Len(history) = 3
        /\ history[1] = EarlierEntry
        /\ history[2].filename # history[3].filename

\* C9: the rewrite is last-write-wins: a call that closes the file leaves
\* the history it read itself plus its own entry (or a text that does not
\* parse), whatever other calls wrote since it read.
C9_LastWriteWins ==
    [][\A s \in Sessions :
         (savers[s].pc = "opened" /\ savers'[s].pc = "idle") =>
             (file' = GarbledFile \/ load_history(file') = savers[s].history)]_vars

\* C9's case: two sessions have each completed one save, the store is
\* well-formed and holds one entry only.
C9_Witness ==
    /\ \A s \in Sessions : savers[s].pc = "idle" /\ savers[s].args # None
    /\ clock = 3
    /\ file.text = "json"
    /\ Len(load_history(file)) = 1

\* C10: the first call is to the primary model; a second call is made
\* exactly when the primary's normalised confidence is below 0.6, to the
\* validator model, after the primary call returned, with the same payload
\* and prompt; there are at most two calls and at most one is in progress.
C10_GatewayCalls ==
    /\ Len(calls) <= 2
    /\ Cardinality({ i \in DOMAIN calls : calls[i].status = "pending" }) <= 1
    /\ calls # <<>> => calls[1].model = PRIMARY_MODEL
    /\ Len(calls) = 2 =>
          /\ calls[2].model = VALIDATOR_MODEL
          /\ calls[1].status = "returned"
          /\ calls[2].user_prompt = calls[1].user_prompt
          /\ calls[2].system_prompt = calls[1].system_prompt
    /\ primary # None => (Len(calls) = 2 <=> primary.confidence < 60)
    /\ primary = None => Len(calls) <= 1

\* C10's case: the primary replied with confidence 0.4 and the validator
\* call has returned.
C10_Witness ==
    /\ Len(calls) = 2
    /\ calls[2].status = "returned"
    /\ primary.confidence = 40
    /\ validator # None

\* The reasoning holds the line "Primary said '<a>', validator said '<b>'.".
NamesBothProposals(reas, a, b) ==
    \E i \in DOMAIN reas :
        /\ reas[i] = "Primary said '"
        /\ i + Len(a) + 1 + Len(b) + 1 <= Len(reas)
        /\ SubSeq(reas, i + 1, i + Len(a)) = a
        /\ reas[i + Len(a) + 1] = "', validator said '"
        /\ SubSeq(reas, i + Len(a) + 2, i + Len(a) + 1 + Len(b)) = b
        /\ reas[i + Len(a) + 1 + Len(b) + 1] = "'."

\* No deterministic rule touched the category the models settled on: the
\* unsafe override, the SSN override and every policy branch stayed out.
NoOverlayFired ==
    /\ ~(unsafe_flag /\ ~Has(validator.category, "Unsafe"))
    /\ ~(has_ssn /\ ~Has(validator.category, "Highly Sensitive"))
    /\ \A b \in POLICY_BLOCKS : ~Has(result.reasoning, b)

\* C11: when a validator reply exists and differs from the primary's in
\* category or unsafe, the values before the deterministic rules are the
\* validator's category, unsafe and kid_safe with confidence
\* min(primary, validator, 0.7), and if no rule fires afterwards the result
\* has the validator's category and a reasoning naming both proposals; when
\* the validator agrees, the primary's category, unsafe, confidence,
\* reasoning and citations stand and nothing of the validator's reply
\* reaches the result.
C11_DisagreementResolution ==
    validator # None =>
        LET differs == validator.category # primary.category \/ validator.unsafe # primary.unsafe
        IN  /\ pc = "overlay" =>
                 IF differs
                 THEN /\ category = validator.category
                      /\ unsafe_flag_llm = validator.unsafe
                      /\ kid_safe = validator.kid_safe
                      /\ confidence = Min(primary.confidence, Min(validator.confidence, 70))
                      /\ NamesBothProposals(reasoning, primary.category, validator.category)
                 ELSE /\ category = primary.category
                      /\ unsafe_flag_llm = primary.unsafe
                      /\ kid_safe = primary.kid_safe
                      /\ confidence = primary.confidence
                      /\ reasoning = primary.reasoning
                      /\ citations = primary.citations
            /\ result # None =>
                 IF differs
                 THEN NoOverlayFired =>
                          /\ result.category = validator.category
                          /\ NamesBothProposals(result.reasoning, primary.category, validator.category)
                 ELSE /\ \A i \in DOMAIN result.citations :
                             \A j \in DOMAIN validator.citations : result.citations[i] # validator.citations[j]
                      /\ \A i \in DOMAIN result.reasoning :
                             \A j \in DOMAIN validator.reasoning : result.reasoning[i] # validator.reasoning[j]
                      /\ result.unsafe = (primary.unsafe \/ unsafe_flag_heuristic)

\* C11's case: the primary said Public with confidence 0.4, the validator
\* said Confidential and Unsafe, no rule fired, and the result is out.
C11_Witness ==
    /\ result # None
    /\ validator # None
    /\ primary.category = <<"Public">>
    /\ primary.confidence = 40
    /\ validator.category = <<"Confidential", " and ", "Unsafe">>
    /\ NoOverlayFired
    /\ result.category = validator.category
    /\ result.confidence = 0

\* The confidence the models settled on, before the deterministic rules.
PostResolutionConfidence ==
    IF validator # None /\ (validator.category # primary.category \/ validator.unsafe # primary.unsafe)
    THEN Min(primary.confidence, Min(validator.confidence, 70))
    ELSE primary.confidence

\* C12: after disagreement resolution no stage lowers the confidence (the
\* SSN override and every policy branch take a maximum), so the result's
\* confidence is at least the post-resolution confidence; the confidence
\* stays within [0, 1]; and resolution puts the confidence below the
\* primary's only when a validator reply disagreed.
C12_ConfidenceMonotone ==
    [][/\ pc \in { "overlay", "policy", "cite" } => confidence' >= confidence
       /\ pc = "resolve" =>
             (confidence' < primary.confidence =>
                 (validator # None /\ (validator.category # primary.category \/ validator.unsafe # primary.unsafe)))
       /\ confidence' >= 0 /\ confidence' <= 100
       /\ result' # None =>
             /\ result'.confidence >= PostResolutionConfidence
             /\ result'.confidence >= 0 /\ result'.confidence <= 100]_vars

\* C12's case: the validator's disagreement lowered the confidence from
\* 0.4 to 0, and the SSN override raised it to 0.9 in the result.
C12_Witness ==
    /\ result # None
    /\ validator # None
    /\ primary.confidence = 40
    /\ PostResolutionConfidence = 0
    /\ has_ssn
    /\ result.confidence = 90

IsPrefix(a, b) ==
    Len(a) <= Len(b) /\ SubSeq(b, 1, Len(a)) = a

\* The citations a policy branch may add: none, or one of page 1.
PolicyCitationLists ==
    { <<>> } \cup { <<[page |-> 1, reason |-> r]>> : r \in POLICY_REASONS }

\* The list cs cites the findings and then the profane pages, one entry
\* each, in their order.
CitesFindings(cs, findings, profane) ==
    /\ Len(cs) = Len(findings) + Len(profane)
    /\ \A i \in DOMAIN findings :
          /\ cs[i].page = findings[i].page
          /\ cs[i].reason[1] = "Detected "
          /\ cs[i].reason[4] = findings[i].value
    /\ \A j \in DOMAIN profane :
          /\ cs[Len(findings) + j].page = profane[j]
          /\ cs[Len(findings) + j].reason = <<"Strong profanity detected (not kid-safe).">>

\* C13: no stage removes or reorders an earlier citation, and the result's
\* citations are the primary's, then the validator's exactly when the
\* validator disagreed, then at most one policy citation, then one per
\* surviving PII finding and one per profane page, whichever policy branch
\* ran.
C13_CitationsAppendOnly ==
    [][/\ IsPrefix(citations, citations')
       /\ result' # None =>
             LET models == primary.citations \o
                           (IF validator # None /\ (validator.category # primary.category \/ validator.unsafe # primary.unsafe)
                            THEN validator.citations ELSE <<>>)
                 cs == result'.citations
             IN  /\ IsPrefix(models, cs)
                 /\ \E policy \in PolicyCitationLists :
                       /\ IsPrefix(models \o policy, cs)
                       /\ CitesFindings(SubSeq(cs, Len(models) + Len(policy) + 1, Len(cs)), pii, prof_pages)]_vars

\* C13's case: both models cited, the validator disagreed, the internal
\* policy branch ran, and the document has an SSN and a profane page.
C13_Witness ==
    /\ result # None
    /\ validator # None
    /\ primary.citations # <<>>
    /\ validator.citations # <<>>
    /\ Has(result.reasoning, INTERNAL_BLOCK)
    /\ Len(pii) = 1
    /\ Len(prof_pages) = 1
    /\ Len(result.citations) = 5
    /\ result.citations[1] = primary.citations[1]
    /\ result.citations[2] = validator.citations[1]

\* C14 as stated: the unsafe / SSN overlay is not idempotent, that is, some
\* category, confidence and flags exist (among the categories and
\* confidences of the model and the ones classify_document holds) on which
\* applying the two overrides twice in their order differs from applying
\* them once.
C14_NotIdempotent ==
    \E cat \in OverlayCategories \cup { category }, conf \in { 0, 40, 60, 90, 95, 100 } \cup { confidence },
       unsafe \in BOOLEAN, ssn \in BOOLEAN :
        LET once == UnsafeSsnOverlay(cat, conf, unsafe, ssn)
        IN  UnsafeSsnOverlay(once.category, once.confidence, unsafe, ssn) # once

\* C14, amended: the unsafe / SSN overlay is idempotent: applying the two
\* overrides again to the category and confidence they produced changes
\* neither of them, nor the unsafe flag.
C14_OverlayIdempotent ==
    [][(pc = "policy" /\ pc' = "reapplied") =>
          (category' = category /\ confidence' = confidence /\ unsafe_flag' = unsafe_flag)]_vars

\* C14's case: a Public reply of confidence 0.6 on a document with an
\* unsafe keyword and an SSN, after the second application.
C14_Witness ==
    /\ pc = "reapplied"
    /\ primary.category = <<"Public">>
    /\ primary.confidence = 60
    /\ unsafe_flag_heuristic
    /\ has_ssn
    /\ category = <<"Highly Sensitive", " and ", "Unsafe">>
    /\ confidence = 90

====
